---- MODULE Spec2Model ----
(***************************************************************************)
(* Model of notebooks/avulsion_stratigraphic_modeling.ipynb.               *)
(*                                                                         *)
(* The notebook is a straight-line script: its code cells run top to       *)
(* bottom.  Each statement group of a cell is one step of the model.  The  *)
(* calls into meanderpy, stratigraph, scipy, geopandas and mayavi are      *)
(* library calls whose numerical results are not part of this repository; *)
(* the model keeps what the notebook itself does with them: which files    *)
(* are read and written, which channels and time stamps the belt holds,    *)
(* the UTM offsets, the domain extents, and which 3-D model every          *)
(* rendered array comes from.                                              *)
(*                                                                         *)
(* Spec   : the run of the notebook (cells 4 .. 56).                       *)
(* SpecZ  : generate_z_coordinates_with_constant (cell 22) on bounded      *)
(*          inputs, in a reduced-precision binary floating point.          *)
(* SpecF  : the facies-volume loop of cells 43 and 46 on bounded inputs.   *)
(***************************************************************************)
EXTENDS Integers, Sequences, FiniteSets, TLC

VARIABLES
    pc,        \* the step that runs next, or "done" / "halted"
    failed,    \* "none", or the step whose exception ended the run
    executed,  \* the steps that have run to completion, in order
    fs,        \* file name -> contents (a centerline in UTM) or Absent
    writes,    \* file name -> number of times the notebook wrote it
    reads,     \* file name -> number of times the notebook read it
    xy,        \* the notebook variables x, y (Unbound before cell 6)
    channels,  \* chb.channels
    cl_times,  \* chb.cl_times
    dom,       \* the notebook variables min_x, max_x, min_y, max_y
    models,    \* chb_3d_preAvulsion / chb_3d_postAvulsion
    facies3d,  \* the notebook variable facies3d
    bottom,    \* the notebook variable bottom
    calls,     \* the calls made to create_block_diagram / create_random_cookie
    zin, zout, \* SpecZ: arguments and result of generate_z_coordinates_with_constant
    fin, fvol, fi, fpc  \* SpecF: model arrays, facies3d, loop index, position

pipeVars == <<pc, failed, executed, fs, writes, reads, xy, channels, cl_times,
              dom, models, facies3d, bottom, calls>>
zVars == <<zin, zout>>
fVars == <<fin, fvol, fi, fpc>>
vars == <<pipeVars, zVars, fVars>>

----------------------------------------------------------------------------
(* Bounds of the model.                                                    *)

MaxSaved == 2      \* centerlines one migrate call saves (nit / saved_ts in the run)
MaxNodes == 5      \* SpecZ: nodes of the centerline
MaxElev == 15      \* SpecZ: elevations are -MaxElev .. MaxElev
Prec == 5          \* SpecZ: significant bits of the floating point (53 in Python)
MaxN == 2          \* SpecF: nx, ny of the strat volume
MaxNz == 3         \* SpecF: nz of the strat volume and length of facies
MaxCode == 2       \* SpecF: facies codes are 1 .. MaxCode

----------------------------------------------------------------------------
(* Program constants.                                                      *)

UTM_X == 560000
UTM_Y == 4300000
\* cell 16, truncated to integers (2789.15..., 4802.22..., 2545.09..., 4342.66...)
pre_min_x == 2789
pre_max_x == 4802
pre_min_y == 2545
pre_max_y == 4342
Margin == 100

\* A shapefile holds a list of geometries, read with .iloc[0]; a file that
\* does not exist is modelled as the empty list.
Absent == << >>
Unbound == "unbound"
NotPassed == "not passed"

t1_initial == "t1_initial_centerline.shp"
t2_initial == "t2_initial_centerline.shp"
FileNames == {t1_initial, t2_initial, "t1_final_centerline.shp", "t2_final_centerline.shp"}

output_shapefile_t1 == "t1_final_centerline.shp"
\* The path of cell 14 left in place when the cell was copied to cell 32.
output_shapefile_t2_stale == "t1_final_centerline.shp"
output_shapefile_t2 == "t2_final_centerline.shp"

----------------------------------------------------------------------------
(* Sequences of numbers.                                                   *)

Last(s) == s[Len(s)]
Reverse(s) == [i \in 1..Len(s) |-> s[Len(s) + 1 - i]]
AddTo(s, k) == [i \in 1..Len(s) |-> s[i] + k]
Range(s) == {s[i] : i \in 1..Len(s)}
SetMin(S) == CHOOSE m \in S : \A v \in S : m <= v
SetMax(S) == CHOOSE m \in S : \A v \in S : m >= v
Min2(a, b) == IF a <= b THEN a ELSE b
Max2(a, b) == IF a >= b THEN a ELSE b

----------------------------------------------------------------------------
(* The cells of the notebook, in the order they run.  Cells 2, 49 and 54   *)
(* hold comments only.  Cell 6, 19 and 30 are split at their library       *)
(* calls, so that an exception can end the run between them.               *)

\* Cell 14 moved in front of cell 12: the export before the migration.
OrderExportFirst ==
    << "c4_import",
       "c6_read", "c6_resample", "c6_flip", "c6_utm", "c6_smooth",
       "c8_params", "c10_belt", "c14_export", "c12_migrate",
       "c16_domain", "c17_build",
       "c19_read", "c19_resample", "c19_utm", "c19_smooth",
       "c21_plot", "c22_def", "c24_z", "c26_plot",
       "c28_append", "c30_migrate", "c30_plot", "c32_export", "c34_plot",
       "c36_extents", "c38_build",
       "c40_import", "c41_camera",
       "c43_facies", "c44_block", "c46_facies", "c47_block",
       "c50_coords", "c51_cookie", "c52_coords", "c53_cookie",
       "c55_coords", "c56_cookie" >>

Order ==
    << "c4_import",
       "c6_read", "c6_resample", "c6_flip", "c6_utm", "c6_smooth",
       "c8_params", "c10_belt", "c12_migrate", "c14_export",
       "c16_domain", "c17_build",
       "c19_read", "c19_resample", "c19_utm", "c19_smooth",
       "c21_plot", "c22_def", "c24_z", "c26_plot",
       "c28_append", "c30_migrate", "c30_plot", "c32_export", "c34_plot",
       "c36_extents", "c38_build",
       "c40_import", "c41_camera",
       "c43_facies", "c44_block", "c46_facies", "c47_block",
       "c50_coords", "c51_cookie", "c52_coords", "c53_cookie",
       "c55_coords", "c56_cookie" >>

Steps == Range(Order)
IndexOf(s) == CHOOSE i \in 1..Len(Order) : Order[i] = s
After(s) == IF IndexOf(s) = Len(Order) THEN "done" ELSE Order[IndexOf(s) + 1]

\* Steps whose only effect is on notebook variables the model does not follow
\* (imports, parameters, 2-D quality-control plots, resampling and smoothing
\* of x, y, the elevations z, the camera and the cookie coordinates).
PlainSteps ==
    { "c4_import", "c6_resample", "c6_smooth", "c8_params",
      "c19_resample", "c19_smooth", "c21_plot", "c22_def", "c24_z", "c26_plot",
      "c30_plot", "c34_plot", "c40_import", "c41_camera",
      "c50_coords", "c52_coords", "c55_coords" }

\* Steps that only bind literals or define a function: they cannot raise.
\* Every other step calls into a library (or indexes an array) and can.
Literal == {"c8_params", "c16_domain", "c22_def", "c41_camera",
            "c50_coords", "c52_coords", "c55_coords"}
CanRaise == Steps \ Literal

\* The stage of the pipeline a step belongs to.
StageKind(s) ==
    CASE s \in {"c6_read", "c19_read"} -> "load"
      [] s \in {"c6_resample", "c6_flip", "c6_utm", "c6_smooth",
                "c19_resample", "c19_utm", "c19_smooth"} -> "resample"
      [] s \in {"c10_belt", "c28_append"} -> "construct"
      [] s \in {"c12_migrate", "c30_migrate"} -> "migrate"
      [] s \in {"c14_export", "c32_export"} -> "export"
      [] s \in {"c17_build", "c38_build"} -> "build3d"
      [] s \in {"c43_facies", "c44_block", "c46_facies", "c47_block",
                "c51_cookie", "c53_cookie", "c56_cookie"} -> "visualize"
      [] s \in {"c21_plot", "c26_plot", "c30_plot", "c34_plot"} -> "plot2d"
      [] OTHER -> "setup"

\* The part of the notebook a step belongs to: the pre-avulsion pass
\* (cells 4-17), the post-avulsion pass (cells 19-38), the rendering (40-56).
FirstPass == Range(SubSeq(Order, 1, IndexOf("c17_build")))
SecondPass == Range(SubSeq(Order, IndexOf("c17_build") + 1, IndexOf("c38_build")))
Pass(s) == IF s \in FirstPass THEN 1 ELSE IF s \in SecondPass THEN 2 ELSE 3

----------------------------------------------------------------------------
(* Data.                                                                   *)

\* Centerlines the input shapefiles may hold (UTM coordinates).
T1Inputs ==
    { [x |-> <<UTM_X + 3, UTM_X + 1>>, y |-> <<UTM_Y + 2, UTM_Y + 5>>],
      [x |-> <<UTM_X + 4, UTM_X + 2>>, y |-> <<UTM_Y + 6, UTM_Y + 3>>] }
T2Inputs ==
    { [x |-> <<UTM_X + 2, UTM_X + 6>>, y |-> <<UTM_Y + 1, UTM_Y + 4>>],
      [x |-> <<UTM_X + 5, UTM_X + 7>>, y |-> <<UTM_Y + 7, UTM_Y + 8>>] }

\* How far one saved centerline lies from the one before it (opaque).
Shifts == {-1, 1}

Channel(c) == [x |-> c.x, y |-> c.y]
SubtractUTM(c) == [x |-> AddTo(c.x, -UTM_X), y |-> AddTo(c.y, -UTM_Y)]
AddUTM(c) == [x |-> AddTo(c.x, UTM_X), y |-> AddTo(c.y, UTM_Y)]
Flip(c) == [x |-> Reverse(c.x), y |-> Reverse(c.y)]

\* chb.migrate: works on the last channel of the belt, and for each
\* saved iteration appends one channel and one time stamp.
SavedChannels(ch, k, d) == [j \in 1..k |-> [x |-> AddTo(ch.x, j * d), y |-> ch.y]]
SavedTimes(last, k) == [j \in 1..k |-> last + j]

\* channels[0] written instead of channels[-1].
ExportedLineFirst(chs) == [x |-> AddTo(chs[1].x, UTM_X), y |-> AddTo(chs[1].y, UTM_Y)]

\* The centerline a shapefile export writes.
ExportedLine(chs) == AddUTM(Last(chs))

\* The extents loop of cell 36.
Extents(chs) ==
    [ min_x |-> SetMin(UNION {Range(chs[i].x) : i \in 1..Len(chs)}),
      max_x |-> SetMax(UNION {Range(chs[i].x) : i \in 1..Len(chs)}),
      min_y |-> SetMin(UNION {Range(chs[i].y) : i \in 1..Len(chs)}),
      max_y |-> SetMax(UNION {Range(chs[i].y) : i \in 1..Len(chs)}) ]

\* mp.build_3d_model as called in cells 17 and 38.
Build3dModel(name, chs, times, d) ==
    [ name |-> name, n_channels |-> Len(chs),
      starttime |-> times[1], endtime |-> Last(times),
      xmin |-> d.min_x - Margin, xmax |-> d.max_x + Margin,
      ymin |-> d.min_y - Margin, ymax |-> d.max_y + Margin ]

----------------------------------------------------------------------------
(* The run of the notebook.                                                *)

Init ==
    /\ pc = Order[1]
    /\ failed = "none"
    /\ executed = << >>
    /\ \E a \in T1Inputs, b \in T2Inputs, here \in SUBSET {t1_initial, t2_initial} :
          fs = [f \in FileNames |->
                  IF f \notin here THEN Absent
                  ELSE IF f = t1_initial THEN <<a>> ELSE <<b>>]
    /\ writes = [f \in FileNames |-> 0]
    /\ reads = [f \in FileNames |-> 0]
    /\ xy = [x |-> << >>, y |-> << >>]
    /\ channels = << >>
    /\ cl_times = << >>
    /\ dom = [min_x |-> 0, max_x |-> 0, min_y |-> 0, max_y |-> 0]
    /\ models = [pre |-> << >>, post |-> << >>]
    /\ facies3d = Unbound
    /\ bottom = Unbound
    /\ calls = << >>
    /\ zin = [n |-> 0, N |-> 0, lb |-> 0, ub |-> 0, called |-> TRUE]
    /\ zout = [raised |-> FALSE, z |-> << >>]
    /\ fin = [nx |-> 0, ny |-> 0, nz |-> 0, facies |-> << >>]
    /\ fvol = << >>
    /\ fi = 0
    /\ fpc = "off"

\* A step runs to completion and the next one is up.
Advance(s) ==
    /\ pc = s
    /\ failed = "none"
    /\ pc' = After(s)
    /\ executed' = Append(executed, s)
    /\ UNCHANGED <<zVars, fVars>>

\* The exception caught and dropped (try: ... except: pass): the run goes on.
RaiseSwallowed ==
    /\ pc \in CanRaise
    /\ failed = "none"
    /\ failed' = pc
    /\ pc' = After(pc)
    /\ UNCHANGED <<executed, fs, writes, reads, xy, channels, cl_times, dom,
                   models, facies3d, bottom, calls, zVars, fVars>>

\* No cell catches an exception: the run ends at the step that raised.
Raise ==
    /\ pc \in CanRaise
    /\ failed = "none"
    /\ failed' = pc
    /\ pc' = "halted"
    /\ UNCHANGED <<executed, fs, writes, reads, xy, channels, cl_times, dom,
                   models, facies3d, bottom, calls, zVars, fVars>>

PlainStep ==
    /\ \E s \in PlainSteps : Advance(s)
    /\ UNCHANGED <<failed, fs, writes, reads, xy, channels, cl_times, dom,
                   models, facies3d, bottom, calls>>

\* gpd.read_file(path); line = shp['geometry'].iloc[0]; x, y = line.xy
ReadFile(s, path) ==
    /\ Advance(s)
    /\ fs[path] # Absent
    /\ xy' = fs[path][1]
    /\ reads' = [reads EXCEPT ![path] = @ + 1]
    /\ UNCHANGED <<failed, fs, writes, channels, cl_times, dom, models,
                   facies3d, bottom, calls>>

c6_read == ReadFile("c6_read", t1_initial)
c19_read == ReadFile("c19_read", t2_initial)

\* x = np.flip(x); y = np.flip(y)
c6_flip ==
    /\ Advance("c6_flip")
    /\ xy' = Flip(xy)
    /\ UNCHANGED <<failed, fs, writes, reads, channels, cl_times, dom, models,
                   facies3d, bottom, calls>>

\* x = x-560000; y = y-4300000
ToLocal(s) ==
    /\ Advance(s)
    /\ xy' = SubtractUTM(xy)
    /\ UNCHANGED <<failed, fs, writes, reads, channels, cl_times, dom, models,
                   facies3d, bottom, calls>>

c6_utm == ToLocal("c6_utm")
c19_utm == ToLocal("c19_utm")

\* ch = mp.Channel(x,y,z,W,D); chb = mp.ChannelBelt(channels=[ch], cl_times=[0.0])
c10_belt ==
    /\ Advance("c10_belt")
    /\ channels' = <<Channel(xy)>>
    /\ cl_times' = <<0>>
    /\ UNCHANGED <<failed, fs, writes, reads, xy, dom, models, facies3d, bottom, calls>>

\* chb.migrate(nit, saved_ts, ...)
Migrate(s) ==
    /\ Advance(s)
    /\ \E k \in 1..MaxSaved, d \in Shifts :
          /\ channels' = channels \o SavedChannels(Last(channels), k, d)
          /\ cl_times' = cl_times \o SavedTimes(Last(cl_times), k)
    /\ UNCHANGED <<failed, fs, writes, reads, xy, dom, models, facies3d, bottom, calls>>

c12_migrate == Migrate("c12_migrate")
c30_migrate == Migrate("c30_migrate")

\* LineString(zip(chb.channels[-1].x + 560000, chb.channels[-1].y + 4300000));
\* gdf_result.to_file(path)
Export(s, path) ==
    /\ Advance(s)
    /\ fs' = [fs EXCEPT ![path] = <<ExportedLine(channels)>>]
    /\ writes' = [writes EXCEPT ![path] = @ + 1]
    /\ UNCHANGED <<failed, reads, xy, channels, cl_times, dom, models,
                   facies3d, bottom, calls>>

c14_export == Export("c14_export", output_shapefile_t1)
c32_export == Export("c32_export", output_shapefile_t2)

\* min_x = 2789.15...; max_x = ...; min_y = ...; max_y = ...
c16_domain ==
    /\ Advance("c16_domain")
    /\ dom' = [min_x |-> pre_min_x, max_x |-> pre_max_x,
               min_y |-> pre_min_y, max_y |-> pre_max_y]
    /\ UNCHANGED <<failed, fs, writes, reads, xy, channels, cl_times, models,
                   facies3d, bottom, calls>>

\* chb_3d_preAvulsion, ... = mp.build_3d_model(chb, ...)
c17_build ==
    /\ Advance("c17_build")
    /\ models' = [models EXCEPT !.pre = <<Build3dModel("pre", channels, cl_times, dom)>>]
    /\ UNCHANGED <<failed, fs, writes, reads, xy, channels, cl_times, dom,
                   facies3d, bottom, calls>>

\* ch2 = mp.Channel(x,y,z,W,D); chb.channels.append(ch2)
c28_append ==
    /\ Advance("c28_append")
    /\ channels' = Append(channels, Channel(xy))
    /\ UNCHANGED <<failed, fs, writes, reads, xy, cl_times, dom, models,
                   facies3d, bottom, calls>>

\* the min/max loop over chb.channels
c36_extents ==
    /\ Advance("c36_extents")
    /\ dom' = Extents(channels)
    /\ UNCHANGED <<failed, fs, writes, reads, xy, channels, cl_times, models,
                   facies3d, bottom, calls>>

\* chb_3d_postAvulsion, ... = mp.build_3d_model(chb, ...)
c38_build ==
    /\ Advance("c38_build")
    /\ models' = [models EXCEPT !.post = <<Build3dModel("post", channels, cl_times, dom)>>]
    /\ UNCHANGED <<failed, fs, writes, reads, xy, channels, cl_times, dom,
                   facies3d, bottom, calls>>

\* Cell 46 copied from cell 43 with chb_3d_preAvulsion left in it.
FaciesFromPre(s, m) ==
    /\ Advance(s)
    /\ models.pre # << >>
    /\ facies3d' = "pre"
    /\ UNCHANGED <<failed, fs, writes, reads, xy, channels, cl_times, dom,
                   models, bottom, calls>>

\* facies3d = np.zeros(<shape of m.strat>); facies3d[:,:,i] = m.facies[i] - 1
FaciesFrom(s, m) ==
    /\ Advance(s)
    /\ models[m] # << >>
    /\ facies3d' = m
    /\ UNCHANGED <<failed, fs, writes, reads, xy, channels, cl_times, dom,
                   models, bottom, calls>>

c43_facies == FaciesFrom("c43_facies", "pre")
c46_facies == FaciesFrom("c46_facies", "post")

\* bottom = np.min(m.strat) - 2; sg.create_block_diagram(m.strat, ..., bottom=bottom, ...)
BlockDiagram(s, m) ==
    /\ Advance(s)
    /\ models[m] # << >>
    /\ bottom' = m
    /\ calls' = Append(calls, [fn |-> "create_block_diagram", step |-> s,
                               strat |-> m, facies |-> NotPassed,
                               topo |-> NotPassed, bottom |-> m])
    /\ UNCHANGED <<failed, fs, writes, reads, xy, channels, cl_times, dom,
                   models, facies3d>>

c44_block == BlockDiagram("c44_block", "pre")
c47_block == BlockDiagram("c47_block", "post")

\* sg.create_random_cookie(chb_3d_postAvulsion.strat, facies=facies3d,
\*                         topo=chb_3d_postAvulsion.topo, ..., bottom=bottom, ...)
Cookie(s) ==
    /\ Advance(s)
    /\ models.post # << >>
    /\ facies3d # Unbound
    /\ bottom # Unbound
    /\ calls' = Append(calls, [fn |-> "create_random_cookie", step |-> s,
                               strat |-> "post", facies |-> facies3d,
                               topo |-> "post", bottom |-> bottom])
    /\ UNCHANGED <<failed, fs, writes, reads, xy, channels, cl_times, dom,
                   models, facies3d, bottom>>

c51_cookie == Cookie("c51_cookie")
c53_cookie == Cookie("c53_cookie")
c56_cookie == Cookie("c56_cookie")

Next ==
    \/ PlainStep \/ Raise
    \/ c6_read \/ c6_flip \/ c6_utm \/ c10_belt \/ c12_migrate \/ c14_export
    \/ c16_domain \/ c17_build
    \/ c19_read \/ c19_utm \/ c28_append \/ c30_migrate \/ c32_export
    \/ c36_extents \/ c38_build
    \/ c43_facies \/ c44_block \/ c46_facies \/ c47_block
    \/ c51_cookie \/ c53_cookie \/ c56_cookie

Spec == Init /\ [][Next]_vars

----------------------------------------------------------------------------
(* generate_z_coordinates_with_constant (cell 22).                         *)
(*                                                                         *)
(* Python computes in binary floating point (53 significant bits).  The    *)
(* model keeps the rounding and reduces the precision to Prec bits: a      *)
(* number is an integer count of Unit-ths, and every arithmetic result is  *)
(* rounded to the nearest number with Prec significant bits, ties to even. *)

RECURSIVE Pow2(_)
Pow2(e) == IF e = 0 THEN 1 ELSE 2 * Pow2(e - 1)

\* The count that stands for 1.0; fine enough for every quotient d / k met here.
Unit == Pow2(Prec + 4)

\* The spacing of the floating-point numbers around num / den.
RECURSIVE Quantum(_, _, _)
Quantum(num, den, q) ==
    IF num < Pow2(Prec) * q * den THEN q ELSE Quantum(num, den, 2 * q)

\* num / den rounded to the nearest integer, ties to even.
NearestEven(num, den) ==
    LET f == num \div den
        r == num % den
    IN  IF 2 * r < den THEN f
        ELSE IF 2 * r > den THEN f + 1
        ELSE IF f % 2 = 0 THEN f ELSE f + 1

\* The floating-point number nearest to num / den.
Fl(num, den) ==
    LET a == IF num < 0 THEN -num ELSE num
        q == Quantum(a, den, 1)
        m == q * NearestEven(a, q * den)
    IN  IF num < 0 THEN -m ELSE m

\* What np.float64 arithmetic gives for a division by zero that is then
\* multiplied by 0 and passed through min and max: nan.
NaN == "nan"

\* The step divided by n - N instead of n - N - 1.
ElevationAtOffByOne(i, n, N, lb, ub) ==
    LET step == Fl(Fl(ub - lb, 1), n - N)
        Z == Fl(ub - Fl((i - N) * step, 1), 1)
    IN  Max2(Min2(Z, ub), lb)

\* The body of the loop, for node i (0-based):
\*   Z = upper_bound - (i - N) * ((upper_bound - lower_bound) / (n - N - 1))
\*   Z = max(min(Z, upper_bound), lower_bound)
ElevationAt(i, n, N, lb, ub) ==
    IF n - N - 1 = 0 THEN NaN
    ELSE LET step == Fl(Fl(ub - lb, 1), n - N - 1)
             Z == Fl(ub - Fl((i - N) * step, 1), 1)
         IN  Max2(Min2(Z, ub), lb)

\* The function: the first min(N, n) elevations are upper_bound, the loop
\* appends the rest; z_coords is bound only inside the loop, so the return
\* raises UnboundLocalError when the loop does not run (N >= n).
generate_z_coordinates_with_constant(n, N, lb, ub) ==
    IF N >= n THEN [raised |-> TRUE, z |-> << >>]
    ELSE [raised |-> FALSE,
          z |-> [j \in 1..n |-> IF j - 1 < N THEN ub
                                ELSE ElevationAt(j - 1, n, N, lb, ub)]]

InitIdle ==
    /\ pc = "off"
    /\ failed = "none"
    /\ executed = << >>
    /\ fs = [f \in FileNames |-> Absent]
    /\ writes = [f \in FileNames |-> 0]
    /\ reads = [f \in FileNames |-> 0]
    /\ xy = [x |-> << >>, y |-> << >>]
    /\ channels = << >>
    /\ cl_times = << >>
    /\ dom = [min_x |-> 0, max_x |-> 0, min_y |-> 0, max_y |-> 0]
    /\ models = [pre |-> << >>, post |-> << >>]
    /\ facies3d = Unbound
    /\ bottom = Unbound
    /\ calls = << >>

NotCalled == [raised |-> FALSE, z |-> << >>]

InitZ ==
    /\ InitIdle
    /\ \E n \in 1..MaxNodes, N \in 0..MaxNodes,
          lb \in (-MaxElev)..MaxElev, ub \in (-MaxElev)..MaxElev :
          /\ Fl(lb * Unit, 1) = lb * Unit     \* the arguments are floats
          /\ Fl(ub * Unit, 1) = ub * Unit
          /\ zin = [n |-> n, N |-> N, lb |-> lb * Unit, ub |-> ub * Unit, called |-> FALSE]
    /\ zout = NotCalled
    /\ fin = [nx |-> 0, ny |-> 0, nz |-> 0, facies |-> << >>]
    /\ fvol = << >>
    /\ fi = 0
    /\ fpc = "off"

\* z = generate_z_coordinates_with_constant(x, y, N, lower_bound, upper_bound)
CallGenerateZ ==
    /\ ~ zin.called
    /\ zin' = [zin EXCEPT !.called = TRUE]
    /\ zout' = generate_z_coordinates_with_constant(zin.n, zin.N, zin.lb, zin.ub)
    /\ UNCHANGED <<pipeVars, fVars>>

NextZ == CallGenerateZ

SpecZ == InitZ /\ [][NextZ]_vars

\* The case C3 is about: the call has returned, 0 <= N <= n-2, lb <= ub.
C3_Case ==
    /\ zin.called
    /\ zin.N <= zin.n - 2
    /\ zin.lb <= zin.ub

Abs(v) == IF v < 0 THEN -v ELSE v

\* The rounding allowed for: four roundings (the difference, the quotient, the
\* product, the final difference) of numbers no larger than twice the larger
\* bound: 8 * 2^-Prec * max(|lower_bound|, |upper_bound|), times Pow2(Prec).
Tolerance == 8 * Max2(Abs(zin.lb), Abs(zin.ub))

\* The ramp without its last node: n elevations, upper_bound upstream of N and
\* at N, every elevation within the bounds, never rising downstream, and each
\* node within rounding of the straight line
\* upper_bound - (i - N) * (upper_bound - lower_bound) / (n - N - 1).
C3_Ramp ==
    LET k == zin.n - zin.N - 1
    IN  /\ ~ zout.raised
        /\ Len(zout.z) = zin.n
        /\ \A j \in 1..zin.N : zout.z[j] = zin.ub
        /\ zout.z[zin.N + 1] = zin.ub
        /\ \A j \in 1..zin.n : zin.lb <= zout.z[j] /\ zout.z[j] <= zin.ub
        /\ \A j \in (zin.N + 1)..(zin.n - 1) : zout.z[j] >= zout.z[j + 1]
        /\ \A j \in (zin.N + 1)..(zin.n - 1) :
              Abs(k * zout.z[j] - (k * zin.ub - (j - 1 - zin.N) * (zin.ub - zin.lb)))
                  * Pow2(Prec) <= Tolerance * k

\* C3, as stated: n elevations; those upstream of N equal upper_bound; from N
\* on they fall along the line of step (ub - lb)/(n-N-1) (read up to
\* rounding for the inner nodes), from upper_bound at node N to exactly
\* lower_bound at the last node.
C3_EndsExactlyAtLowerBound ==
    C3_Case => (C3_Ramp /\ zout.z[zin.n] = zin.lb)

\* C3, amended: as above, but the last node is lower_bound only up to
\* rounding: it is never below lower_bound and exceeds it by no more than the
\* rounding allowed for.
C3_EndsNearLowerBound ==
    C3_Case =>
        /\ C3_Ramp
        /\ zout.z[zin.n] >= zin.lb
        /\ (zout.z[zin.n] - zin.lb) * Pow2(Prec) <= Tolerance

C3_Witness ==
    /\ C3_Case
    /\ zin.N >= 1
    /\ zin.n - zin.N - 1 >= 2
    /\ zout.z[zin.n] > zin.lb
    /\ zout.z[zin.N + 2] < zin.ub

----------------------------------------------------------------------------
(* The facies volume of cells 43 and 46.                                   *)
(*   facies3d = np.zeros((nx, ny, nz-1))                                   *)
(*   for i in range(len(m.facies)): facies3d[:,:,i] = m.facies[i] - 1      *)

\* The cells of an array of shape (a, b, c), 0-based.
Cells(a, b, c) == (0..(a - 1)) \X (0..(b - 1)) \X (0..(c - 1))

FaciesSeqs == UNION {[1..l -> 1..MaxCode] : l \in 0..MaxNz}

\* The library code written as it is.
FaciesCodeRaw(v) == v

\* facies codes should start at 0
FaciesCode(v) == v - 1

InitF ==
    /\ InitIdle
    /\ zin = [n |-> 0, N |-> 0, lb |-> 0, ub |-> 0, called |-> TRUE]
    /\ zout = NotCalled
    /\ \E nx \in 1..MaxN, ny \in 1..MaxN, nz \in 1..MaxNz, f \in FaciesSeqs :
          fin = [nx |-> nx, ny |-> ny, nz |-> nz, facies |-> f]
    /\ fvol = << >>
    /\ fi = 0
    /\ fpc = "zeros"

\* facies3d = np.zeros((strat.shape[0], strat.shape[1], strat.shape[2]-1))
FaciesZeros ==
    /\ fpc = "zeros"
    /\ fvol' = [c \in Cells(fin.nx, fin.ny, fin.nz - 1) |-> 0]
    /\ fi' = 0
    /\ fpc' = "loop"
    /\ UNCHANGED <<pipeVars, zVars, fin>>

\* facies3d[:,:,i] = facies[i] - 1, for an i inside the third axis
FaciesAssign ==
    /\ fpc = "loop"
    /\ fi < Len(fin.facies)
    /\ fi < fin.nz - 1
    /\ fvol' = [c \in DOMAIN fvol |->
                  IF c[3] = fi THEN FaciesCode(fin.facies[fi + 1]) ELSE fvol[c]]
    /\ fi' = fi + 1
    /\ UNCHANGED <<pipeVars, zVars, fin, fpc>>

\* the same assignment with i outside the third axis: IndexError
FaciesIndexError ==
    /\ fpc = "loop"
    /\ fi < Len(fin.facies)
    /\ fi >= fin.nz - 1
    /\ fpc' = "IndexError"
    /\ UNCHANGED <<pipeVars, zVars, fin, fvol, fi>>

\* range(len(facies)) is exhausted
FaciesDone ==
    /\ fpc = "loop"
    /\ fi = Len(fin.facies)
    /\ fpc' = "done"
    /\ UNCHANGED <<pipeVars, zVars, fin, fvol, fi>>

NextF == FaciesZeros \/ FaciesAssign \/ FaciesIndexError \/ FaciesDone

SpecF == InitF /\ [][NextF]_vars

\* C8: with len(facies) <= nz-1 the loop ends without an error, the facies
\* volume has shape (nx, ny, nz-1), every cell of a layer i < len(facies) is
\* facies[i] - 1 (a library code 1 becomes 0), and the other layers stay 0.
C8_FaciesVolume ==
    Len(fin.facies) <= fin.nz - 1 =>
        /\ fpc # "IndexError"
        /\ fpc = "done" =>
              /\ DOMAIN fvol = Cells(fin.nx, fin.ny, fin.nz - 1)
              /\ \A c \in DOMAIN fvol :
                    fvol[c] = IF c[3] < Len(fin.facies)
                              THEN fin.facies[c[3] + 1] - 1
                              ELSE 0

C8_Witness ==
    /\ fpc = "done"
    /\ fin.nz = 3
    /\ fin.facies = <<1, 2>>
    /\ fin.nx = 2
    /\ fvol[<<1, 0, 0>>] = 0
    /\ fvol[<<1, 0, 1>>] = 1

----------------------------------------------------------------------------
(* Properties of the run.                                                  *)

Ran(s) == s \in Range(executed)
Rank(k) ==
    CASE k = "load" -> 1 [] k = "resample" -> 2 [] k = "construct" -> 3
      [] k = "migrate" -> 4 [] k = "export" -> 5 [] k = "build3d" -> 6
      [] k = "visualize" -> 7 [] OTHER -> 0
Listed(s) == Rank(StageKind(s)) > 0

\* C1, as stated: the stages run as one linear sequence load -> resample/smooth
\* -> construct -> migrate -> export -> build 3-D -> visualize; no stage of an
\* earlier kind runs after a stage of a later kind has run.
C1_OneLinearSequence ==
    \A i, j \in 1..Len(executed) :
        (i < j /\ Listed(executed[i]) /\ Listed(executed[j]))
            => Rank(StageKind(executed[i])) <= Rank(StageKind(executed[j]))

\* C1, amended: the notebook makes two passes, pre-avulsion then
\* post-avulsion, each in the order load -> resample/smooth -> construct ->
\* migrate -> export -> build 3-D; the 3-D rendering comes after both builds;
\* a complete run holds every stage of both passes.
C1_TwoPasses ==
    /\ \A i, j \in 1..Len(executed) :
          i < j =>
            /\ Pass(executed[i]) <= Pass(executed[j])
            /\ (Pass(executed[i]) = Pass(executed[j])
                 /\ Listed(executed[i]) /\ Listed(executed[j]))
                => Rank(StageKind(executed[i])) <= Rank(StageKind(executed[j]))
    /\ \A i \in 1..Len(executed) :
          StageKind(executed[i]) = "visualize"
            => Ran("c17_build") /\ Ran("c38_build") /\ Pass(executed[i]) = 3
    /\ pc = "done" =>
          \A p \in {1, 2} :
            \A k \in {"load", "resample", "construct", "migrate", "export", "build3d"} :
              \E i \in 1..Len(executed) :
                Pass(executed[i]) = p /\ StageKind(executed[i]) = k

C1_Witness == pc = "done" /\ Ran("c19_read") /\ Ran("c56_cookie")

\* C2: a failing stage is not caught: the run stops there, the steps that ran
\* are exactly those in front of it, nothing can run after it, and a
\* shapefile or a 3-D model exists only if its step ran before the failure.
C2_FailureStopsRun ==
    failed # "none" =>
        /\ pc = "halted"
        /\ executed = SubSeq(Order, 1, IndexOf(failed) - 1)
        /\ ~ ENABLED Next
        /\ writes[output_shapefile_t1] = (IF Ran("c14_export") THEN 1 ELSE 0)
        /\ writes[output_shapefile_t2] = (IF Ran("c32_export") THEN 1 ELSE 0)
        /\ (models.pre # << >>) = Ran("c17_build")
        /\ (models.post # << >>) = Ran("c38_build")
        /\ Len(calls) = Cardinality({s \in Range(executed) :
                            s \in {"c44_block", "c47_block", "c51_cookie",
                                   "c53_cookie", "c56_cookie"}})

C2_Witness ==
    /\ failed = "c12_migrate"
    /\ pc = "halted"
    /\ \A f \in FileNames : writes[f] = 0
    /\ models.pre = << >>

\* C4: the only files written are t1_final_centerline.shp and
\* t2_final_centerline.shp, once each in a complete run; the two input files
\* are read (once each) and never written.
C4_FilesWritten ==
    /\ writes[t1_initial] = 0
    /\ writes[t2_initial] = 0
    /\ \A f \in FileNames : writes[f] <= 1
    /\ reads["t1_final_centerline.shp"] = 0
    /\ reads["t2_final_centerline.shp"] = 0
    /\ pc = "done" =>
          /\ writes["t1_final_centerline.shp"] = 1
          /\ writes["t2_final_centerline.shp"] = 1
          /\ reads[t1_initial] = 1
          /\ reads[t2_initial] = 1
          /\ fs[t1_initial] \in {<<a>> : a \in T1Inputs}
          /\ fs[t2_initial] \in {<<b>> : b \in T2Inputs}

C4_Witness ==
    /\ pc = "done"
    /\ fs["t1_final_centerline.shp"] # Absent
    /\ fs["t2_final_centerline.shp"] # Absent

\* C5: t1_final_centerline.shp holds the last channel of the belt after the
\* first migrate and before ch2 is appended; the second migrate starts with
\* ch2 as the last channel of the belt; t2_final_centerline.shp holds the
\* last channel of the belt after the second migrate.
C5_ExportedCenterlines ==
    /\ (Ran("c14_export") /\ ~ Ran("c28_append")) =>
          /\ Ran("c12_migrate")
          /\ fs["t1_final_centerline.shp"] =
                << [x |-> AddTo(Last(channels).x, UTM_X),
                    y |-> AddTo(Last(channels).y, UTM_Y)] >>
    /\ pc = "c30_migrate" =>
          /\ Ran("c28_append")
          /\ Last(channels) = [x |-> xy.x, y |-> xy.y]
    /\ Ran("c32_export") =>
          /\ Ran("c30_migrate")
          /\ Len(channels) >= 4
          /\ fs["t2_final_centerline.shp"] =
                << [x |-> AddTo(Last(channels).x, UTM_X),
                    y |-> AddTo(Last(channels).y, UTM_Y)] >>

C5_Witness ==
    /\ pc = "done"
    /\ fs["t1_final_centerline.shp"] # Absent
    /\ fs["t2_final_centerline.shp"] # fs["t1_final_centerline.shp"]
    /\ Len(channels) = 2 * MaxSaved + 2

\* C6, as stated: the cookie labelled pre-avulsion (T1), cell 51, is cut
\* through the strat, topo and facies of chb_3d_preAvulsion.
C6_T1CookieThroughPreModel ==
    \A i \in 1..Len(calls) :
        calls[i].step = "c51_cookie" =>
            /\ calls[i].strat = "pre"
            /\ calls[i].topo = "pre"
            /\ calls[i].facies = "pre"

\* C7, as stated: after the step headed 'Restore back to UTM coordinates'
\* the extents used for the post-avulsion domain are UTM values, the local
\* extents of the belt with 560000 and 4300000 added back.
C7_ExtentsAreUTM ==
    Ran("c36_extents") =>
        /\ dom.min_x = Extents(channels).min_x + UTM_X
        /\ dom.max_x = Extents(channels).max_x + UTM_X
        /\ dom.min_y = Extents(channels).min_y + UTM_Y
        /\ dom.max_y = Extents(channels).max_y + UTM_Y

\* C9, as stated: the belt always holds one time stamp per centerline.
C9_OneTimePerChannel == Len(channels) = Len(cl_times)

\* C10: at every call of create_block_diagram and create_random_cookie the
\* strat, facies, topo and bottom that are passed come from one 3-D model.
C10_ArgumentsFromOneModel ==
    \A i \in 1..Len(calls) :
        Cardinality({calls[i].strat, calls[i].facies, calls[i].topo,
                     calls[i].bottom} \ {NotPassed}) = 1

C10_Witness ==
    /\ Len(calls) = 5
    /\ calls[1].strat = "pre"
    /\ calls[5].facies = "post"
    /\ calls[5].bottom = "post"

====
